---- MODULE Spec2Model ----
(***************************************************************************)
(* Automation Helper CLI (polyfant/automation-helper-cli).                 *)
(*                                                                         *)
(* A model of the read-eval-print loop of main.go, of the three handlers   *)
(* registered in init() (sensor, ai, abb), of the two reference stores of  *)
(* package abb and of Assistant.GetHelp of package ai.                     *)
(*                                                                         *)
(* Go strings are TLA+ strings. An input line is a sequence of one-char    *)
(* strings, so that strings.Fields and strings.ToLower are computed        *)
(* character by character; Str turns a token back into a string.           *)
(***************************************************************************)
EXTENDS Integers, Sequences, FiniteSets, TLC

(***************************************************************************)
(* Bounds of the model.                                                    *)
(***************************************************************************)
\* number of input lines a session reads before the input stream ends
MaxLines == 3

(***************************************************************************)
(* Strings.                                                                *)
(***************************************************************************)
\* string(chars): the Go string made of the characters cs
RECURSIVE Str(_)
Str(cs) == IF cs = <<>> THEN "" ELSE Head(cs) \o Str(Tail(cs))

\* unicode.IsSpace, on the characters an input line is built from
IsSpace(c) == c \in {" ", "\t", "\r", "\f"}

RECURSIVE FieldsAcc(_, _, _)
FieldsAcc(s, cur, acc) ==
    IF s = <<>>
    THEN IF cur = <<>> THEN acc ELSE Append(acc, cur)
    ELSE IF IsSpace(Head(s))
         THEN FieldsAcc(Tail(s), <<>>, IF cur = <<>> THEN acc ELSE Append(acc, cur))
         ELSE FieldsAcc(Tail(s), Append(cur, Head(s)), acc)

\* strings.Fields: the maximal runs of non-space characters of s, in order
Fields(s) == FieldsAcc(s, <<>>, <<>>)

UpperToLower ==
       ("A" :> "a") @@ ("B" :> "b") @@ ("C" :> "c") @@ ("D" :> "d") @@ ("E" :> "e")
    @@ ("F" :> "f") @@ ("G" :> "g") @@ ("H" :> "h") @@ ("I" :> "i") @@ ("J" :> "j")
    @@ ("K" :> "k") @@ ("L" :> "l") @@ ("M" :> "m") @@ ("N" :> "n") @@ ("O" :> "o")
    @@ ("P" :> "p") @@ ("Q" :> "q") @@ ("R" :> "r") @@ ("S" :> "s") @@ ("T" :> "t")
    @@ ("U" :> "u") @@ ("V" :> "v") @@ ("W" :> "w") @@ ("X" :> "x") @@ ("Y" :> "y")
    @@ ("Z" :> "z")

\* strings.ToLower, character by character
ToLower(cs) ==
    [i \in 1..Len(cs) |-> IF cs[i] \in DOMAIN UpperToLower THEN UpperToLower[cs[i]] ELSE cs[i]]

\* strings.Join
RECURSIVE Join(_, _)
Join(elems, sep) ==
    IF elems = <<>> THEN ""
    ELSE IF Len(elems) = 1 THEN elems[1]
    ELSE elems[1] \o sep \o Join(Tail(elems), sep)

\* the blanks fmt's %-10s adds to the right of s
RECURSIVE Spaces(_)
Spaces(n) == IF n <= 0 THEN "" ELSE " " \o Spaces(n - 1)

\* fmt.Sprintf("%-10s", s): s left-justified in a field of width 10
PadRight10(s) == s \o Spaces(10 - Len(s))

(***************************************************************************)
(* Package abb: the reference stores.                                      *)
(***************************************************************************)
\* var Commands = map[string]ABBCommand{...}
CommandsTable ==
       ("move_j" :> [Name |-> "MoveJ",
        Syntax |-> "MoveJ Target [Speed] [Zone] [Tool]",
        Example |-> "MoveJ p10, v1000, z50, tool1;\nMoveJ [[100,200,300],[1,0,0,0],[0,0,0,0],[9E9,9E9,9E9,9E9,9E9,9E9]], v1000, fine, tool0;",
        Description |-> "Joint movement - Fastest way to move between points. Robot axes move independently to reach target.\n- Speed (v): v1000 means 1000mm/s\n- Zone (z): z50 means blend radius 50mm, 'fine' for exact positioning\n- Common use: Home position movements, approach positions"])
    @@ ("move_l" :> [Name |-> "MoveL",
        Syntax |-> "MoveL Target [Speed] [Zone] [Tool]",
        Example |-> "MoveL p20, v100, fine, tool1;\nMoveL Offs(p20,100,0,50), v100, z10, tool1; ! Offset from p20",
        Description |-> "Linear movement - TCP moves in straight line. Essential for precise paths and process work.\n- Use lower speeds (v100-v300) for process work\n- Offs() function adds offset to target\n- Common use: Welding, gluing, precise positioning"])
    @@ ("move_c" :> [Name |-> "MoveC",
        Syntax |-> "MoveC CirPoint ToPoint [Speed] [Zone] [Tool]",
        Example |-> "MoveC p30, p40, v500, z10, tool1;\n! Create circle: Same distance from start to circle point as circle point to end",
        Description |-> "Circular movement - Creates perfect circular arc through three points.\n- Start point (current pos) -> CirPoint -> ToPoint\n- Points should form isosceles triangle for smooth motion\n- Common use: Arc welding, curved sealing paths"])
    @@ ("set_do" :> [Name |-> "SetDO",
        Syntax |-> "SetDO Signal Value",
        Example |-> "SetDO do_Gripper, 1;    ! Turn on gripper\nSetDO do_Valve, 0;      ! Turn off valve",
        Description |-> "Sets digital output signal. Controls binary equipment like grippers, valves.\n- Value: 1/0 (on/off)\n- Signals must be defined in I/O configuration\n- Common use: Gripper control, process equipment"])
    @@ ("wait_di" :> [Name |-> "WaitDI",
        Syntax |-> "WaitDI Signal Value [\\MaxTime]",
        Example |-> "WaitDI di_PartPresent, 1;         ! Wait for part\nWaitDI di_Ready, 1 \\MaxTime:=5;  ! Wait max 5s",
        Description |-> "Waits for digital input signal. Essential for synchronizing with external events.\n- Optional \\MaxTime prevents infinite waiting\n- Throws error if MaxTime exceeded\n- Common use: Part detection, process synchronization"])
    @@ ("if_statement" :> [Name |-> "IF",
        Syntax |-> "IF condition THEN ... {ELSEIF condition THEN ...} [ELSE ...] ENDIF",
        Example |-> "IF di_PartType = 1 THEN\n    MoveJ p10, v1000, z50, tool1;\nELSEIF di_PartType = 2 THEN\n    MoveJ p20, v1000, z50, tool1;\nENDIF",
        Description |-> "Conditional execution. Supports complex program logic.\n- Conditions: =, <>, >, <, >=, <=, AND, OR, NOT\n- Can be nested\n- Common use: Part type selection, error handling"])
    @@ ("search_l" :> [Name |-> "SearchL",
        Syntax |-> "SearchL [\\Signal] Target [Speed] [Tool]",
        Example |-> "SearchL \\Stop:=di_Contact, p30, v100, tool1;\npos := CRobT();  ! Get position where contact was made",
        Description |-> "Linear search movement with sensor feedback.\n- Stops immediately when signal changes\n- Use CRobT() to get stop position\n- Common use: Part location, calibration"])
    @@ ("tool_data" :> [Name |-> "PERS tooldata",
        Syntax |-> "PERS tooldata <name>:=[TRUE,[[x,y,z],[q1,q2,q3,q4]],[mass,[cx,cy,cz],[I1,I2,I3,I4],0,0,0]];",
        Example |-> "PERS tooldata myTool:=[TRUE,[[175,0,35],[1,0,0,0]],[0.5,[0,0,0.02],[1,0,0,0],0,0,0]];\n! Tool at x=175mm, z=35mm, 0.5kg",
        Description |-> "Define tool data - Critical for accurate positioning.\n- Position: [x,y,z] from tool mounting point to TCP\n- Orientation: [q1,q2,q3,q4] quaternion values\n- Mass and center of gravity important for dynamics"])
    @@ ("wobj_data" :> [Name |-> "PERS wobjdata",
        Syntax |-> "PERS wobjdata <name>:=[FALSE,TRUE,\"\",[uframe],[oframe]];",
        Example |-> "PERS wobjdata myTable:=[FALSE,TRUE,\"\"[[800,0,500],[1,0,0,0]],[[0,0,0],[1,0,0,0]]];\n! Table 800mm in X, 500mm in Z",
        Description |-> "Define work object - Local coordinate system for parts.\n- uframe: User frame relative to world\n- oframe: Object frame relative to uframe\n- Common use: Multiple identical fixtures, moving lines"])
    @@ ("for_loop" :> [Name |-> "FOR",
        Syntax |-> "FOR <var> FROM <start> TO <end> [STEP <step>] DO ... ENDFOR",
        Example |-> "FOR i FROM 1 TO 5 DO\n    MoveL Offs(p40,0,i*50,0), v500, z10, tool1;\nENDFOR\n! Creates 5 points 50mm apart",
        Description |-> "Counter-based loop. Perfect for repeated patterns.\n- Variable automatically increments\n- STEP defines increment value\n- Common use: Pallet picking, pattern movements"])
    @@ ("while_loop" :> [Name |-> "WHILE",
        Syntax |-> "WHILE condition DO ... ENDWHILE",
        Example |-> "WHILE di_PartsPresent = 1 DO\n    MoveL pPickPos, v500, fine, tool1;\n    SetDO do_Gripper, 1;\nENDWHILE",
        Description |-> "Condition-based loop. Continues while condition is true.\n- Check condition before each iteration\n- Use caution to avoid infinite loops\n- Common use: Continuous processes, conveyor tracking"])
    @@ ("set_ao" :> [Name |-> "SetAO",
        Syntax |-> "SetAO Signal Value",
        Example |-> "SetAO ao_WeldPower, 75;    ! Set welding power to 75%\nSetAO ao_Speed, v_SpeedRef;  ! Set from variable",
        Description |-> "Sets analog output signal. Controls variable equipment.\n- Value range typically 0-100 or custom\n- Can use variables as value\n- Common use: Speed control, process parameters"])
    @@ ("wait_time" :> [Name |-> "WaitTime",
        Syntax |-> "WaitTime <seconds>",
        Example |-> "SetDO do_Glue, 1;\nWaitTime 0.5;    ! Wait 0.5 seconds\nSetDO do_Glue, 0;",
        Description |-> "Pauses program execution. Use for timing control.\n- Specify time in seconds (can be decimal)\n- Accurate to milliseconds\n- Common use: Process timing, settling time"])
    @@ ("robtarget" :> [Name |-> "robtarget",
        Syntax |-> "CONST robtarget <name>:=[[x,y,z],[q1,q2,q3,q4],[cf1,cf4,cf6,cfx],[ex1,ex2,ex3,ex4,ex5,ex6]];",
        Example |-> "CONST robtarget p10:=[[500,0,400],[1,0,0,0],[0,0,0,0],[9E9,9E9,9E9,9E9,9E9,9E9]];\n! Point at x=500, z=400",
        Description |-> "Define robot target position - Complete robot configuration.\n- [x,y,z]: Position in mm\n- [q1-q4]: Orientation in quaternions\n- [cf1,cf4,cf6,cfx]: Robot configuration\n- [ex1-ex6]: External axes"])
    @@ ("offs" :> [Name |-> "Offs",
        Syntax |-> "Offs(robtarget,x,y,z)",
        Example |-> "MoveL Offs(p10,100,0,50), v500, z10, tool1;\n! Move to p10 offset 100mm in X, 50mm in Z",
        Description |-> "Create offset from robtarget. Useful for relative movements.\n- Adds offset in x,y,z directions\n- Maintains original orientation\n- Common use: Pattern movements, approach positions"])
    @@ ("pulse_do" :> [Name |-> "PulseDO",
        Syntax |-> "PulseDO Signal [\\High] [\\Time:=0.1]",
        Example |-> "PulseDO do_Reset;         ! Quick pulse with default time\nPulseDO do_Trigger \\Time:=0.5;  ! 0.5s pulse",
        Description |-> "Generates a pulse on digital output signal.\n- Default pulse time is 0.1 seconds\n- \\High keeps signal high after pulse\n- Common use: Reset signals, triggers"])
    @@ ("relative_pos" :> [Name |-> "RelTool",
        Syntax |-> "RelTool [\\Tool] Point [\\Dx] [\\Dy] [\\Dz] [\\Rx] [\\Ry] [\\Rz]",
        Example |-> "MoveL RelTool(pCurrent, 0, 0, 50), v100, fine, tool1;  ! Move up 50mm\nMoveL RelTool(pCurrent \\Dx:=100), v100, z10, tool1;  ! Move in X",
        Description |-> "Create position relative to tool coordinate system.\n- Dx,Dy,Dz: Translation in mm\n- Rx,Ry,Rz: Rotation in degrees\n- Common use: Tool-relative movements"])
    @@ ("error_recovery" :> [Name |-> "ERROR",
        Syntax |-> "ERROR\n    [instruction]\n    ...\nENDERROR",
        Example |-> "ERROR\n    StopMove;         ! Stop robot\n    SetDO do_Error, 1;  ! Signal error\n    Stop;              ! Stop program\nENDERROR",
        Description |-> "Error recovery handler. Executes when error occurs.\n- Place in TRAP routines\n- Use with RAISE to trigger\n- Common use: Error handling, safety"])
    @@ ("string_handling" :> [Name |-> "StrMatch",
        Syntax |-> "StrMatch String1 Pattern [\\MatchLength]",
        Example |-> "IF StrMatch(partID, \"A*\") THEN\n    ! Handle A-series parts\nENDIF",
        Description |-> "Pattern matching for strings.\n- Supports wildcards (* and ?)\n- Case sensitive\n- Common use: Part identification"])
    @@ ("interrupt" :> [Name |-> "CONNECT",
        Syntax |-> "CONNECT Signal WITH Trap_Routine",
        Example |-> "CONNECT di_Emergency WITH Emergency_Stop;\n! In TRAP:\nTRAP Emergency_Stop\n    StopMove;\n    Stop;\nENDTRAP",
        Description |-> "Connect interrupt signal to trap routine.\n- Executes trap immediately on signal\n- Multiple connects possible\n- Common use: Emergency stops, monitoring"])

\* var QuickReference = map[string]string{...}
QuickReferenceTable ==
       ("coordinate_system" :> "RAPID Coordinate Systems Guide:\n- World: Global reference system (default)\n- Base: Robot base coordinate system\n- Tool: Defined at tool center point (TCP)\n- WorkObject: Local coordinate system for workpiece\n\nExamples:\n1. Define tool frame:\n   PERS tooldata tool1:=[TRUE,[[100,0,100],[1,0,0,0]],[0.5,[0,0,0.1],[1,0,0,0],0,0,0]];\n\n2. Define work object:\n   PERS wobjdata wobj1:=[FALSE,TRUE,\"\",[[0,0,0],[1,0,0,0]],[[0,0,0],[1,0,0,0]]];")
    @@ ("data_types" :> "RAPID Data Types Reference:\nBasic Types:\n- num: Numeric value (float) | Example: VAR num distance := 50.5;\n- bool: TRUE/FALSE         | Example: VAR bool isReady := TRUE;\n- string: Text string      | Example: VAR string message := \"Ready\";\n\nPosition Types:\n- pos: Position [x,y,z]   | Example: VAR pos p1 := [100,200,300];\n- orient: Quaternion      | Example: VAR orient rot1 := [1,0,0,0];\n- pose: Position+orient   | Example: VAR pose target := [[x,y,z],[q1,q2,q3,q4]];\n- robtarget: Full target  | Example: See 'robtarget' command reference")
    @@ ("motion_types" :> "Robot Motion Types Guide:\n1. MoveJ (Joint motion)\n   - Fastest point-to-point movement\n   - Non-linear TCP path\n   - Best for large movements\n\n2. MoveL (Linear motion)\n   - Straight line TCP path\n   - Constant velocity\n   - Good for precise paths\n\n3. MoveC (Circular motion)\n   - Circular TCP path\n   - Requires circle point\n   - Perfect for curved paths\n\n4. SearchL/SearchC\n   - Motion with sensor input\n   - Stops on sensor trigger\n   - Used for part detection")
    @@ ("speed_settings" :> "Speed Settings Reference:\nStandard Speeds:\nv5    - 5mm/s    | Very slow, precise movements\nv50   - 50mm/s   | Careful movements\nv100  - 100mm/s  | Normal operation speed\nv500  - 500mm/s  | Fast movements\nv1000 - 1000mm/s | Very fast movements\nv2000 - 2000mm/s | Maximum speed for light tools\nvmax  - Maximum possible speed\n\nCustom Speed:\n[Speeddata]\nv100 := [100, 500, 5000, 1000];\n  - TCP linear speed (mm/s)\n  - TCP reorientation speed (deg/s)\n  - External axis speed\n  - Tool reorientation speed")
    @@ ("zone_data" :> "Zone Data (Path Accuracy) Guide:\nfine - Exact positioning (0mm)\nz0   - 0.3mm path radius\nz1   - 1mm path radius\nz5   - 5mm path radius\nz10  - 10mm path radius\nz20  - 20mm path radius\nz50  - 50mm path radius\nz100 - 100mm path radius\n\nUsage Tips:\n- Use 'fine' for precise operations (picking, placing)\n- Use z1-z5 for normal operations\n- Use z10-z50 for fast movements\n- Larger zones = smoother motion but less accuracy")
    @@ ("io_handling" :> "I/O Handling Guide:\nDigital I/O:\n1. Digital Outputs (DO)\n   - SetDO signal, value;    ! Set output\n   - PulseDO signal;         ! Quick pulse output\n   Example:\n   SetDO do_Gripper, 1;      ! Turn on gripper\n   PulseDO do_Reset;         ! Pulse reset signal\n\n2. Digital Inputs (DI)\n   - WaitDI signal, value;   ! Wait for input\n   - IsDI(signal);           ! Check input state\n   Example:\n   WaitDI di_PartPresent, 1;  ! Wait for part\n   IF IsDI(di_Error) THEN     ! Check error signal\n       ! Handle error\n   ENDIF\n\nAnalog I/O:\n1. Analog Outputs (AO)\n   - SetAO signal, value;    ! Set analog value\n   Example:\n   SetAO ao_Speed, 75;       ! Set to 75%\n   SetAO ao_Voltage, v_ref;  ! Set from variable\n\n2. Analog Inputs (AI)\n   - AInput(signal);         ! Read analog input\n   Example:\n   VAR num pressure;\n   pressure := AInput(ai_Pressure);\n\nBest Practices:\n1. Signal Naming:\n   - do_* for digital outputs\n   - di_* for digital inputs\n   - ao_* for analog outputs\n   - ai_* for analog inputs\n\n2. Error Handling:\n   - Use \\MaxTime with WaitDI\n   - Always check signal ranges\n   Example:\n   WaitDI di_Ready, 1 \\MaxTime:=5;  ! Timeout after 5s\n\n3. Signal Groups:\n   - Group related signals\n   - Use consistent naming\n   Example:\n   do_GripperOpen\n   do_GripperClose\n   di_GripperOpened\n   di_GripperClosed\n\n4. Common Patterns:\n   ! Gripper control with feedback\n   SetDO do_GripperClose, 1;\n   WaitDI di_GripperClosed, 1 \\MaxTime:=2;\n   \n   ! Process control\n   SetAO ao_Power, 80;\n   WaitTime 0.5;\n   SetDO do_ProcessStart, 1;")
    @@ ("error_handling" :> "Error Handling Guide:\n1. Basic Error Handler:\n   ERROR\n       IF ERRNO = ERR_PATH_STOP THEN\n           StopMove;\n           ClearPath;\n           StartMove;\n           RETRY;\n       ELSE\n           Stop;\n       ENDIF\n\n2. Common Error Types:\n   ERR_PATH_STOP    - Motion path interrupted\n   ERR_COLL_STOP   - Collision detected\n   ERR_OUTOFBND    - Position out of range\n   ERR_REFUNKDAT   - Undefined data used\n   \n3. Recovery Actions:\n   RETRY           - Retry from error point\n   TRYNEXT         - Skip to next instruction\n   RETURN          - Exit routine\n   EXIT            - Exit program\n   \n4. Error Logging:\n   ErrLog error_msg;        | Logs error to system\n   TPWrite \"Error: \" + error_msg;  | Display on FlexPendant")
    @@ ("basic_program" :> "Basic Program Structure:\nMODULE MainModule\n    ! Variable declarations\n    PERS tooldata currentTool := [...];\n    PERS wobjdata currentWobj := [...];\n    VAR robtarget homePos;\n    \n    ! Main procedure\n    PROC main()\n        ! Initialize\n        TPWrite \"Program Starting...\";\n        MoveJ homePos, v1000, z50, currentTool;\n        \n        ! Main loop\n        WHILE running DO\n            ! Check conditions\n            IF GetDI di_StartCycle = 1 THEN\n                Cycle;\n            ENDIF\n            \n            ! Error checking\n            ERROR\n                IF ERRNO = ERR_PATH_STOP THEN\n                    TPWrite \"Path was stopped\";\n                    RETRY;\n                ENDIF\n        ENDWHILE\n    ENDPROC\n    \n    ! Subroutines\n    PROC Cycle()\n        MoveJ p10, v1000, z50, currentTool;\n        SetDO do_Gripper, 1;\n        WaitTime 0.5;\n        MoveL p20, v500, fine, currentTool;\n    ENDPROC\nENDMODULE")
    @@ ("common_patterns" :> "Common Programming Patterns:\n1. Pick and Place:\n   PROC PickAndPlace()\n       MoveJ approach, v1000, z10, tool1;\n       MoveL pick, v100, fine, tool1;\n       SetDO do_Gripper, 1;\n       WaitTime 0.2;\n       MoveL approach, v100, z10, tool1;\n       MoveJ place_approach, v1000, z10, tool1;\n       MoveL place, v100, fine, tool1;\n       SetDO do_Gripper, 0;\n   ENDPROC\n\n2. Palletizing:\n   PROC Palletize()\n       FOR layer FROM 1 TO 3 DO\n           FOR row FROM 1 TO 2 DO\n               FOR col FROM 1 TO 3 DO\n                   current_pos := Offs(base_pos, \n                       col*100, row*100, layer*50);\n                   MoveL current_pos, v500, fine, tool1;\n               ENDFOR\n           ENDFOR\n       ENDFOR\n   ENDPROC\n\n3. Search Pattern:\n   PROC SearchObject()\n       SearchL \\Stop \\Tool:=tool1 \n           \\MaxTime:=5 \n           \\PoseOffs:=offs \n           start_pos, \n           search_pos, \n           v100, \n           tool1;\n       IF FOUND THEN\n           TPWrite \"Object found!\";\n       ENDIF\n   ENDPROC")
    @@ ("interrupts" :> "Interrupt Handling Guide:\n1. Basic Interrupt Setup:\n   CONNECT signal WITH trap_routine;\n   \n2. Trap Structure:\n   TRAP trap_routine\n       ! Your code here\n   ENDTRAP\n   \n3. Common Patterns:\n   ! Emergency stop\n   CONNECT di_Emergency WITH Emergency_Stop;\n   TRAP Emergency_Stop\n       StopMove;\n       SetDO do_Error, 1;\n       Stop;\n   ENDTRAP\n   \n   ! Part detection\n   CONNECT di_PartPresent WITH Handle_Part;\n   TRAP Handle_Part\n       := CRobT();    ! Get position\n       ! Handle part\n   ENDTRAP")
    @@ ("program_structure" :> "Program Structure Guide:\n1. Main Program:\n   MODULE MainModule\n       ! Constants\n       CONST robtarget pHome := [...];\n       \n       ! Variables\n       VAR num counter := 0;\n       PERS tooldata currentTool := [...];\n       \n       ! Main procedure\n       PROC main()\n           ! Initialize\n           ! Main loop\n       ENDPROC\n   ENDMODULE\n\n2. Best Practices:\n   - Group related variables\n   - Use meaningful names\n   - Comment complex logic\n   - Structure in modules\n\n3. Common Structure:\n   ! Initialize\n   TPErase;\n   TPWrite \"Program starting...\";\n   MoveJ pHome, v1000, z50, tool0;\n   \n   ! Main loop\n   WHILE running DO\n       ! Process logic\n   ENDWHILE")
    @@ ("motion_patterns" :> "Common Motion Patterns:\n1. Pick and Place:\n   MoveJ pApproach, v1000, z10, tool1;    ! Approach\n   MoveL pPick, v100, fine, tool1;        ! Pick\n   SetDO do_Gripper, 1;                   ! Grip\n   WaitDI di_GripperClosed, 1;            ! Verify\n   MoveL pApproach, v100, z10, tool1;     ! Retract\n   \n2. Search Pattern:\n   SearchL \\\\Stop:=di_Contact, pSearch, v100, tool1;\n   pos := CRobT();                        ! Get position\n   \n3. Circular Process:\n   MoveL pStart, v100, fine, tool1;\n   SetDO do_Process, 1;                   ! Start process\n   MoveC pMid, pEnd, v100, z1, tool1;     ! Circular move\n   SetDO do_Process, 0;                   ! End process\n\n4. Palletizing:\n   FOR i FROM 1 TO rows DO\n       FOR j FROM 1 TO cols DO\n           pCurrent := Offs(pBase,i*dx,j*dy,0);\n           MoveL pCurrent, v500, fine, tool1;\n       ENDFOR\n   ENDFOR")
    @@ ("calibration" :> "Calibration and Setup Guide:\n1. Tool Calibration:\n   - Use 4-point method\n   - Points should form pyramid\n   - Verify with circular movement\n\n2. Work Object Calibration:\n   - Use 3-point method\n   - First point = origin\n   - Second point = X direction\n   - Third point = Y direction (approx)\n\n3. Best Practices:\n   - Calibrate at operating temperature\n   - Use fine points\n   - Verify with test movements\n   - Document calibration data")
    @@ ("safety" :> "Safety Programming Guide:\n1. Emergency Stops:\n   - Use interrupts for immediate response\n   - Always stop motion first\n   - Signal error state\n   - Safe position if possible\n\n2. Motion Safety:\n   - Use collision detection\n   - Check workspace limits\n   - Verify speed in human zones\n   - Use safe zones when needed\n\n3. Process Safety:\n   - Verify tool state\n   - Check process conditions\n   - Monitor process signals\n   - Handle timeouts properly\n\n4. Error Recovery:\n   - Safe error states\n   - Clear error conditions\n   - Restart procedures\n   - Operator confirmation")

(***************************************************************************)
(* Package main: the registry built by init().                             *)
(***************************************************************************)
\* commandRegistry after init(); Execute names the registered function
commandRegistryTable ==
       ("sensor" :> [Description |-> "Generate sensor code", Execute |-> "generateSensorCode"])
    @@ ("ai" :> [Description |-> "Get AI assistance with ABB RAPID code", Execute |-> "aiExecute"])
    @@ ("abb" :> [Description |-> "Get ABB robot programming information and examples", Execute |-> "abbExecute"])

(***************************************************************************)
(* Package main: the handlers.                                             *)
(***************************************************************************)
\* the template generateDigitalSensorCode returns for when_on
digitalTemplate ==
    "\nPLC Ladder Logic:\n|--[INPUT]--|--[OUTPUT]--|\n\nABB Robot:\nIF DI_01 = 1 THEN\n    ! Your action here\nENDIF\n\nSiemens S7:\nIF \"Input_Bit\" THEN\n    // Your action here\nEND_IF"

\* the template generateAnalogSensorCode returns
analogTemplate ==
    "\nPLC Ladder Logic:\n|--[ANALOG_IN]--|--[SCALE]--|--[COMPARE]--|--[OUTPUT]--|\n\nABB Robot:\nIF AI_01 > SET_POINT THEN\n    ! Your action here\nENDIF\n\nSiemens S7:\nIF \"Analog_Input\" > \"Set_Point\" THEN\n    // Your action here\nEND_IF"

generateDigitalSensorCode(action) ==
    IF action = "when_on" THEN digitalTemplate
    ELSE "Unknown action for digital sensor"

generateAnalogSensorCode(action) == analogTemplate

generateSensorCode(a) ==
    IF Len(a) < 2
    THEN "Usage: sensor <type> <action>\nExample: sensor digital when_on"
    ELSE LET sensorType == a[1]
             action == a[2]
         IN  CASE sensorType = "digital" -> generateDigitalSensorCode(action)
               [] sensorType = "analog" -> generateAnalogSensorCode(action)
               [] OTHER -> "Unknown sensor type. Available types: digital, analog"

\* the usage text of the abb handler
abbUsage ==
    "Usage: abb <topic> [subtopic]\nAvailable topics:\n1. command  - Show RAPID command details\n2. quickref - Show programming reference\n3. help     - Show this help message\n\nExamples:\n  abb command move_j     - Show MoveJ command details\n  abb quickref io        - Show I/O handling guide\n  abb list              - List all available commands"

\* an enumeration of the finite set S
RECURSIVE Enum(_)
Enum(S) == IF S = {} THEN <<>> ELSE LET x == CHOOSE y \in S : TRUE IN <<x>> \o Enum(S \ {x})

Reverse(s) == [i \in 1..Len(s) |-> s[Len(s) + 1 - i]]

Rotate(s, k) == [i \in 1..Len(s) |-> s[((i + k - 1) % Len(s)) + 1]]

\* the orders in which a range statement may visit the keys of a map with key
\* set S: every key once, starting anywhere, in either direction
RangeOrders(S) ==
    IF S = {} THEN {<<>>}
    ELSE LET e == Enum(S)
         IN  {Rotate(e, k) : k \in 0..(Len(e) - 1)} \cup {Rotate(Reverse(e), k) : k \in 0..(Len(e) - 1)}

\* fmt.Sprintf of the command details
commandDetails(cmd) ==
    "\nCommand: " \o cmd.Name \o "\nSyntax: " \o cmd.Syntax \o "\n\nExample:\n" \o cmd.Example
        \o "\n\nDescription:\n" \o cmd.Description

\* the strings.Builder of abb list, for the iteration order keys
RECURSIVE commandTable(_, _)
commandTable(cmds, keys) ==
    IF keys = <<>> THEN ""
    ELSE PadRight10(cmds[Head(keys)].Name) \o " - " \o cmds[Head(keys)].Description \o "\n"
             \o commandTable(cmds, Tail(keys))

\* abbCommandList appending the Name of each entry instead of its key
abbCommandList_Names(cmds) ==
    {[result |-> "Available commands:\n" \o Join([i \in 1..Len(o) |-> cmds[o[i]].Name], ", "),
      list |-> [i \in 1..Len(o) |-> cmds[o[i]].Name]] : o \in RangeOrders(DOMAIN cmds)}

\* abb command: the listing, one outcome per iteration order of the map
abbCommandList(cmds) ==
    {[result |-> "Available commands:\n" \o Join(o, ", "), list |-> o] : o \in RangeOrders(DOMAIN cmds)}

\* abb command <key>
abbCommandLookup(key, cmds) ==
    IF key \in DOMAIN cmds THEN commandDetails(cmds[key])
    ELSE "Unknown ABB command. Type 'abb command' to see available commands."

\* abb quickref: the listing, one outcome per iteration order of the map
abbQuickrefList(refs) ==
    {[result |-> "Available quick reference topics:\n" \o Join(o, ", "), list |-> o] :
        o \in RangeOrders(DOMAIN refs)}

\* abbQuickrefLookup without the test of exists: an absent key yields the zero value
abbQuickrefLookup_NoExistsCheck(key, refs) ==
    IF key \in DOMAIN refs THEN refs[key] ELSE ""

\* abb quickref <key>
abbQuickrefLookup(key, refs) ==
    IF key \in DOMAIN refs THEN refs[key]
    ELSE "Unknown topic. Type 'abb quickref' to see available topics."

\* abb list, one outcome per iteration order of the map
abbList(cmds) ==
    {[result |-> "\nABB RAPID Commands:\n" \o "================\n" \o commandTable(cmds, o),
      list |-> <<>>] : o \in RangeOrders(DOMAIN cmds)}

\* the Execute function of commandRegistry["abb"]: the set of its possible
\* outcomes for the arguments a; list is the slice of keys a listing builds
abbExecute(a, cmds, refs) ==
    IF Len(a) < 1 THEN {[result |-> abbUsage, list |-> <<>>]}
    ELSE CASE a[1] = "command" ->
                IF Len(a) < 2 THEN abbCommandList(cmds)
                ELSE {[result |-> abbCommandLookup(a[2], cmds), list |-> <<>>]}
           [] a[1] = "quickref" ->
                IF Len(a) < 2 THEN abbQuickrefList(refs)
                ELSE {[result |-> abbQuickrefLookup(a[2], refs), list |-> <<>>]}
           [] a[1] = "list" -> abbList(cmds)
           [] OTHER ->
                {[result |-> "Unknown ABB subcommand. Available: command, quickref, list", list |-> <<>>]}

\* aiExecute sending every argument, the first one included, as the question
aiExecute_KeepsFirstArg(a, key) ==
    IF Len(a) < 2 THEN [kind |-> "return", result |-> "Usage: ai help \"your question about the code\""]
    ELSE IF key = "" THEN [kind |-> "return", result |-> "Error: OPENAI_API_KEY environment variable not set"]
    ELSE [kind |-> "call", question |-> Join(a, " ")]

\* aiExecute without the test of the credential
aiExecute_NoKeyCheck(a, key) ==
    IF Len(a) < 2 THEN [kind |-> "return", result |-> "Usage: ai help \"your question about the code\""]
    ELSE [kind |-> "call", question |-> Join(Tail(a), " ")]

\* the Execute function of commandRegistry["ai"] up to the call of GetHelp:
\* either it returns a message, or it calls GetHelp with a question
aiExecute(a, key) ==
    IF Len(a) < 2 THEN [kind |-> "return", result |-> "Usage: ai help \"your question about the code\""]
    ELSE IF key = "" THEN [kind |-> "return", result |-> "Error: OPENAI_API_KEY environment variable not set"]
    ELSE [kind |-> "call", question |-> Join(Tail(a), " ")]

\* the rest of that function, once GetHelp has returned (response, err)
aiReturn(r) ==
    IF r.failed THEN "Error getting AI help: " \o r.err
    ELSE r.response

\* the lines printHelp prints for the registry, for the iteration order keys
RECURSIVE helpLines(_, _)
helpLines(reg, keys) ==
    IF keys = <<>> THEN ""
    ELSE "  " \o Head(keys) \o ": " \o reg[Head(keys)].Description \o "\n" \o helpLines(reg, Tail(keys))

\* printHelp: what it prints, one text per iteration order of the registry
printHelp(reg) ==
    {"\nAutomation Helper CLI\n" \o "====================\n" \o "\nAvailable commands:\n"
         \o helpLines(reg, o) \o "\nType 'exit' to quit\n" : o \in RangeOrders(DOMAIN reg)}

(***************************************************************************)
(* Package ai.                                                             *)
(***************************************************************************)
\* the Content of the system message of GetHelp
systemPrompt ==
    "You are an expert in ABB RAPID robotics programming language. \n\t\t\t\t\tHelp users understand and modify their RAPID code. Provide clear, \n\t\t\t\t\tpractical explanations and examples."

\* Assistant.GetHelp: the Messages of the request it sends
GetHelpMessages(question) ==
    << [Role |-> "system", Content |-> systemPrompt],
       [Role |-> "user", Content |-> question] >>

\* GetHelpReturn taking the last choice instead of the first
GetHelpReturn_LastChoice(r) ==
    IF r.kind = "error"
    THEN [panic |-> FALSE, response |-> "", failed |-> TRUE, err |-> "AI request failed: " \o r.err]
    ELSE IF Len(r.choices) = 0
         THEN [panic |-> TRUE, response |-> "", failed |-> FALSE, err |-> ""]
         ELSE [panic |-> FALSE, response |-> r.choices[Len(r.choices)], failed |-> FALSE, err |-> ""]

\* Assistant.GetHelp: what it returns for the outcome r of CreateChatCompletion;
\* resp.Choices[0] of an empty Choices is an index out of range, a run-time panic
GetHelpReturn(r) ==
    IF r.kind = "error"
    THEN [panic |-> FALSE, response |-> "", failed |-> TRUE, err |-> "AI request failed: " \o r.err]
    ELSE IF Len(r.choices) = 0
         THEN [panic |-> TRUE, response |-> "", failed |-> FALSE, err |-> ""]
         ELSE [panic |-> FALSE, response |-> r.choices[1], failed |-> FALSE, err |-> ""]

(***************************************************************************)
(* The inputs of the model: input lines and external outcomes.             *)
(***************************************************************************)
\* the characters of the words input lines are made of
Chars ==
       ("exit" :> <<"e","x","i","t">>)
    @@ ("EXIT" :> <<"E","X","I","T">>)
    @@ ("Exit" :> <<"E","x","i","t">>)
    @@ ("now" :> <<"n","o","w">>)
    @@ ("help" :> <<"h","e","l","p">>)
    @@ ("HELP" :> <<"H","E","L","P">>)
    @@ ("foo" :> <<"f","o","o">>)
    @@ ("bar" :> <<"b","a","r">>)
    @@ ("sensor" :> <<"s","e","n","s","o","r">>)
    @@ ("SENSOR" :> <<"S","E","N","S","O","R">>)
    @@ ("digital" :> <<"d","i","g","i","t","a","l">>)
    @@ ("analog" :> <<"a","n","a","l","o","g">>)
    @@ ("Digital" :> <<"D","i","g","i","t","a","l">>)
    @@ ("temp" :> <<"t","e","m","p">>)
    @@ ("when_on" :> <<"w","h","e","n","_","o","n">>)
    @@ ("when_off" :> <<"w","h","e","n","_","o","f","f">>)
    @@ ("When_On" :> <<"W","h","e","n","_","O","n">>)
    @@ ("extra" :> <<"e","x","t","r","a">>)
    @@ ("abb" :> <<"a","b","b">>)
    @@ ("ABB" :> <<"A","B","B">>)
    @@ ("list" :> <<"l","i","s","t">>)
    @@ ("command" :> <<"c","o","m","m","a","n","d">>)
    @@ ("quickref" :> <<"q","u","i","c","k","r","e","f">>)
    @@ ("COMMAND" :> <<"C","O","M","M","A","N","D">>)
    @@ ("Move_J" :> <<"M","o","v","e","_","J">>)
    @@ ("IO_Handling" :> <<"I","O","_","H","a","n","d","l","i","n","g">>)
    @@ ("no_such_key" :> <<"n","o","_","s","u","c","h","_","k","e","y">>)
    @@ ("ai" :> <<"a","i">>)
    @@ ("AI" :> <<"A","I">>)
    @@ ("what" :> <<"w","h","a","t">>)
    @@ ("What" :> <<"W","h","a","t">>)
    @@ ("is" :> <<"i","s">>)
    @@ ("MoveL" :> <<"M","o","v","e","L">>)
    @@ ("?" :> <<"?">>)
    @@ ("move_j" :> <<"m","o","v","e","_","j">>)
    @@ ("move_l" :> <<"m","o","v","e","_","l">>)
    @@ ("move_c" :> <<"m","o","v","e","_","c">>)
    @@ ("set_do" :> <<"s","e","t","_","d","o">>)
    @@ ("wait_di" :> <<"w","a","i","t","_","d","i">>)
    @@ ("if_statement" :> <<"i","f","_","s","t","a","t","e","m","e","n","t">>)
    @@ ("search_l" :> <<"s","e","a","r","c","h","_","l">>)
    @@ ("tool_data" :> <<"t","o","o","l","_","d","a","t","a">>)
    @@ ("wobj_data" :> <<"w","o","b","j","_","d","a","t","a">>)
    @@ ("for_loop" :> <<"f","o","r","_","l","o","o","p">>)
    @@ ("while_loop" :> <<"w","h","i","l","e","_","l","o","o","p">>)
    @@ ("set_ao" :> <<"s","e","t","_","a","o">>)
    @@ ("wait_time" :> <<"w","a","i","t","_","t","i","m","e">>)
    @@ ("robtarget" :> <<"r","o","b","t","a","r","g","e","t">>)
    @@ ("offs" :> <<"o","f","f","s">>)
    @@ ("pulse_do" :> <<"p","u","l","s","e","_","d","o">>)
    @@ ("relative_pos" :> <<"r","e","l","a","t","i","v","e","_","p","o","s">>)
    @@ ("error_recovery" :> <<"e","r","r","o","r","_","r","e","c","o","v","e","r","y">>)
    @@ ("string_handling" :> <<"s","t","r","i","n","g","_","h","a","n","d","l","i","n","g">>)
    @@ ("interrupt" :> <<"i","n","t","e","r","r","u","p","t">>)
    @@ ("coordinate_system" :> <<"c","o","o","r","d","i","n","a","t","e","_","s","y","s","t","e","m">>)
    @@ ("data_types" :> <<"d","a","t","a","_","t","y","p","e","s">>)
    @@ ("motion_types" :> <<"m","o","t","i","o","n","_","t","y","p","e","s">>)
    @@ ("speed_settings" :> <<"s","p","e","e","d","_","s","e","t","t","i","n","g","s">>)
    @@ ("zone_data" :> <<"z","o","n","e","_","d","a","t","a">>)
    @@ ("io_handling" :> <<"i","o","_","h","a","n","d","l","i","n","g">>)
    @@ ("error_handling" :> <<"e","r","r","o","r","_","h","a","n","d","l","i","n","g">>)
    @@ ("basic_program" :> <<"b","a","s","i","c","_","p","r","o","g","r","a","m">>)
    @@ ("common_patterns" :> <<"c","o","m","m","o","n","_","p","a","t","t","e","r","n","s">>)
    @@ ("interrupts" :> <<"i","n","t","e","r","r","u","p","t","s">>)
    @@ ("program_structure" :> <<"p","r","o","g","r","a","m","_","s","t","r","u","c","t","u","r","e">>)
    @@ ("motion_patterns" :> <<"m","o","t","i","o","n","_","p","a","t","t","e","r","n","s">>)
    @@ ("calibration" :> <<"c","a","l","i","b","r","a","t","i","o","n">>)
    @@ ("safety" :> <<"s","a","f","e","t","y">>)

\* the blanks between the words of a line, and around it
Seps == { <<" ">>, <<" ", "\t">> }
Pads == { <<>>, <<" ">> }

RECURSIVE JoinChars(_, _)
JoinChars(words, sep) ==
    IF words = <<>> THEN <<>>
    ELSE IF Len(words) = 1 THEN Chars[words[1]]
    ELSE Chars[words[1]] \o sep \o JoinChars(Tail(words), sep)

SensorWords ==
    { <<"sensor">>, <<"sensor", "digital">>, <<"SENSOR", "digital", "when_on">>,
      <<"sensor", "digital", "when_on", "extra">> }
    \cup { <<"sensor", t, a>> : t \in {"digital", "analog", "Digital", "temp"},
                                 a \in {"when_on", "when_off", "When_On"} }

AbbWords ==
    { <<"abb">>, <<"ABB">>, <<"abb", "help">>, <<"abb", "list">>, <<"abb", "command">>,
      <<"abb", "quickref">>, <<"abb", "COMMAND">>, <<"ABB", "command", "move_j", "extra">> }
    \cup { <<"abb", s, k>> : s \in {"command", "quickref"},
                              k \in DOMAIN CommandsTable \cup DOMAIN QuickReferenceTable
                                      \cup {"Move_J", "IO_Handling", "no_such_key"} }

AiWords ==
    { <<"ai">>, <<"ai", "help">>, <<"ai", "what">>, <<"ai", "help", "what">>,
      <<"ai", "help", "what", "is", "MoveL", "?">>, <<"AI", "help", "What">>, <<"ai", "what", "is">> }

OtherWords ==
    { <<>>, <<"exit">>, <<"EXIT">>, <<"Exit">>, <<"exit", "now">>, <<"help">>, <<"HELP">>,
      <<"help", "abb">>, <<"foo">>, <<"foo", "bar">>, <<"list">> }

\* the input lines of the model
Lines ==
    { p \o JoinChars(w, s) \o p :
        w \in SensorWords \cup AbbWords \cup AiWords \cup OtherWords, s \in Seps, p \in Pads }

\* the texts the external endpoint answers with, and the errors the call fails with
Texts == { "Use MoveL for straight lines", "", " MoveJ p10, v1000, z50, tool1;\n" }
MaxChoices == 2
Choices == UNION { [1..n -> Texts] : n \in 0..MaxChoices }
Errors ==
    { "Post \"https://api.openai.com/v1/chat/completions\": dial tcp: connection refused",
      "error, status code: 401, message: Incorrect API key provided" }
Outcomes ==
    { [kind |-> "error", err |-> e, choices |-> <<>>] : e \in Errors }
    \cup { [kind |-> "ok", err |-> "", choices |-> c] : c \in Choices }

(***************************************************************************)
(* The state of the process.                                               *)
(***************************************************************************)
VARIABLES
    state,            \* "Running", "Terminated" (main returned) or "Panicked" (run-time panic)
    pc,               \* "loop" (top of the for), "scan" (in scanner.Scan), "await" (in CreateChatCompletion), "done"
    apiKey,           \* os.Getenv("OPENAI_API_KEY")
    commandRegistry,  \* the handler registry
    Commands,         \* abb.Commands
    QuickReference,   \* abb.QuickReference
    input,            \* scanner.Text() of the line read last
    branch,           \* what main did with that line
    handler,          \* the Execute function invoked for that line, or "none"
    result,           \* the string that handler returned
    cmdList,          \* the slice of keys a listing built for that line
    stdout,           \* the text written to standard output last
    prompts,          \* number of prompts printed
    linesRead,        \* number of lines read
    requests,         \* number of CreateChatCompletion calls made
    outstanding,      \* number of CreateChatCompletion calls that have not returned
    request,          \* Messages of the request made last
    response,         \* what the external endpoint answered last
    before            \* what an observer of the session noted: an earlier line and what was printed for it

vars == <<state, pc, apiKey, commandRegistry, Commands, QuickReference, input, branch,
          handler, result, cmdList, stdout, prompts, linesRead, requests, outstanding,
          request, response, before>>

tables == <<commandRegistry, Commands, QuickReference>>

NoRequest == <<>>
NoResponse == [kind |-> "none"]
NoNote == [at |-> 0, input |-> <<>>, output |-> ""]

Init ==
    /\ state = "Running"
    /\ pc = "loop"
    /\ apiKey \in {"", "sk-test"}
    /\ commandRegistry = commandRegistryTable
    /\ Commands = CommandsTable
    /\ QuickReference = QuickReferenceTable
    /\ input = <<>>
    /\ branch = "start"
    /\ handler = "none"
    /\ result = ""
    /\ cmdList = <<>>
    /\ stdout = "Welcome to Automation Helper CLI!\nType 'help' for available commands or 'exit' to quit\n"
    /\ prompts = 0
    /\ linesRead = 0
    /\ requests = 0
    /\ outstanding = 0
    /\ request = NoRequest
    /\ response = NoResponse
    /\ before = NoNote

\* main: fmt.Print("\n> ") at the top of the loop; the variables of the previous
\* iteration (input, args, result, and what the handler held) are out of scope
Prompt ==
    /\ pc = "loop"
    /\ state = "Running"
    /\ pc' = "scan"
    /\ stdout' = "\n> "
    /\ prompts' = prompts + 1
    /\ input' = <<>>
    /\ branch' = "prompt"
    /\ handler' = "none"
    /\ result' = ""
    /\ cmdList' = <<>>
    /\ request' = NoRequest
    /\ response' = NoResponse
    /\ UNCHANGED <<state, apiKey, tables, linesRead, requests, outstanding, before>>

\* main: scanner.Scan() returns false at end of input, the loop breaks and main returns
ScanEOF ==
    /\ pc = "scan"
    /\ state = "Running"
    /\ pc' = "done"
    /\ state' = "Terminated"
    /\ branch' = "eof"
    /\ handler' = "none"
    /\ UNCHANGED <<apiKey, tables, input, result, cmdList, stdout, prompts,
                   linesRead, requests, outstanding, request, response, before>>

\* main: args := strings.Fields(input), as strings
mainArgs(line) == LET f == Fields(line) IN [i \in 1..Len(f) |-> Str(f[i])]

\* main: command := strings.ToLower(args[0])
mainCommand(line) == Str(ToLower(Fields(line)[1]))

\* mainBranch comparing the command word as typed, without ToLower
mainBranch_CaseSensitive(line, reg) ==
    IF Len(mainArgs(line)) = 0 THEN "continue"
    ELSE LET command == mainArgs(line)[1]
         IN  CASE command = "exit" -> "exit"
               [] command = "help" -> "help"
               [] OTHER -> IF command \in DOMAIN reg THEN "execute" ELSE "unknown"

\* main: the branch the loop body takes for the line
mainBranch(line, reg) ==
    IF Len(mainArgs(line)) = 0 THEN "continue"
    ELSE LET command == mainCommand(line)
         IN  CASE command = "exit" -> "exit"
               [] command = "help" -> "help"
               [] OTHER -> IF command \in DOMAIN reg THEN "execute" ELSE "unknown"

\* scanner.Scan() returns true with the text line
Scanned(line) ==
    /\ pc = "scan"
    /\ state = "Running"
    /\ linesRead < MaxLines
    /\ line \in Lines
    /\ input' = line
    /\ linesRead' = linesRead + 1
    /\ UNCHANGED before

\* ScanEmpty answering an empty line as it would an unknown command
ScanEmpty_PrintsUnknown(line) ==
    /\ Scanned(line)
    /\ mainBranch(line, commandRegistry) = "continue"
    /\ pc' = "loop"
    /\ branch' = "continue"
    /\ handler' = "none"
    /\ result' = ""
    /\ cmdList' = <<>>
    /\ stdout' = "Unknown command: \nType 'help' for available commands\n"
    /\ UNCHANGED <<state, apiKey, tables, prompts, requests, outstanding, request, response>>

\* main: an empty line, continue
ScanEmpty(line) ==
    /\ Scanned(line)
    /\ mainBranch(line, commandRegistry) = "continue"
    /\ pc' = "loop"
    /\ branch' = "continue"
    /\ handler' = "none"
    /\ result' = ""
    /\ cmdList' = <<>>
    /\ UNCHANGED <<state, apiKey, tables, stdout, prompts, requests, outstanding, request, response>>

\* ScanExit leaving the switch only, not main: the loop goes on
ScanExit_BreakOnly(line) ==
    /\ Scanned(line)
    /\ mainBranch(line, commandRegistry) = "exit"
    /\ pc' = "loop"
    /\ branch' = "exit"
    /\ handler' = "none"
    /\ result' = ""
    /\ cmdList' = <<>>
    /\ stdout' = "Goodbye!\n"
    /\ UNCHANGED <<state, apiKey, tables, prompts, requests, outstanding, request, response>>

\* main: case "exit", Goodbye! and return
ScanExit(line) ==
    /\ Scanned(line)
    /\ mainBranch(line, commandRegistry) = "exit"
    /\ pc' = "done"
    /\ state' = "Terminated"
    /\ branch' = "exit"
    /\ handler' = "none"
    /\ result' = ""
    /\ cmdList' = <<>>
    /\ stdout' = "Goodbye!\n"
    /\ UNCHANGED <<apiKey, tables, prompts, requests, outstanding, request, response>>

\* main: case "help", printHelp()
ScanHelp(line) ==
    /\ Scanned(line)
    /\ mainBranch(line, commandRegistry) = "help"
    /\ pc' = "loop"
    /\ branch' = "help"
    /\ handler' = "none"
    /\ result' = ""
    /\ cmdList' = <<>>
    /\ stdout' \in printHelp(commandRegistry)
    /\ UNCHANGED <<state, apiKey, tables, prompts, requests, outstanding, request, response>>

\* main: default, the command is not in the registry
ScanUnknown(line) ==
    /\ Scanned(line)
    /\ mainBranch(line, commandRegistry) = "unknown"
    /\ pc' = "loop"
    /\ branch' = "unknown"
    /\ handler' = "none"
    /\ result' = ""
    /\ cmdList' = <<>>
    /\ stdout' = "Unknown command: " \o mainCommand(line) \o "\nType 'help' for available commands\n"
    /\ UNCHANGED <<state, apiKey, tables, prompts, requests, outstanding, request, response>>

\* execArgs case-folding every argument, as main does the command word
execArgs_Lowered(line) ==
    LET f == Fields(line) IN [i \in 1..(Len(f) - 1) |-> Str(ToLower(f[i + 1]))]

\* main: args[1:], the arguments Execute receives for the line
execArgs(line) == Tail(mainArgs(line))

\* main: default, cmd.Execute(args[1:]) of the registered command
Executes(line, execute) ==
    /\ Scanned(line)
    /\ mainBranch(line, commandRegistry) = "execute"
    /\ commandRegistry[mainCommand(line)].Execute = execute
    /\ branch' = "execute"
    /\ handler' = execute

\* main: fmt.Println(result) and the next iteration
Printed(r) ==
    /\ result' = r
    /\ stdout' = r \o "\n"
    /\ pc' = "loop"

ExecSensor(line) ==
    /\ Executes(line, "generateSensorCode")
    /\ Printed(generateSensorCode(execArgs(line)))
    /\ cmdList' = <<>>
    /\ UNCHANGED <<state, apiKey, tables, prompts, requests, outstanding, request, response>>

\* ExecAbb keeping the answer to an unknown quickref topic in the map
ExecAbb_CachesMiss(line) ==
    /\ Executes(line, "abbExecute")
    /\ \E r \in abbExecute(execArgs(line), Commands, QuickReference) :
          /\ Printed(r.result)
          /\ cmdList' = r.list
          /\ QuickReference' =
                IF /\ Len(execArgs(line)) >= 2
                   /\ execArgs(line)[1] = "quickref"
                   /\ execArgs(line)[2] \notin DOMAIN QuickReference
                THEN QuickReference @@ (execArgs(line)[2] :> r.result)
                ELSE QuickReference
    /\ UNCHANGED <<state, apiKey, commandRegistry, Commands, prompts, requests, outstanding,
                   request, response>>

ExecAbb(line) ==
    /\ Executes(line, "abbExecute")
    /\ \E r \in abbExecute(execArgs(line), Commands, QuickReference) :
          /\ Printed(r.result)
          /\ cmdList' = r.list
    /\ UNCHANGED <<state, apiKey, tables, prompts, requests, outstanding, request, response>>

\* ExecAi sending the request without waiting for its answer: main goes on
ExecAi_Async(line) ==
    /\ Executes(line, "aiExecute")
    /\ cmdList' = <<>>
    /\ LET r == aiExecute(execArgs(line), apiKey)
       IN  IF r.kind = "return"
           THEN /\ Printed(r.result)
                /\ UNCHANGED <<requests, outstanding, request>>
           ELSE /\ pc' = "loop"
                /\ request' = GetHelpMessages(r.question)
                /\ requests' = requests + 1
                /\ outstanding' = outstanding + 1
                /\ UNCHANGED <<result, stdout>>
    /\ UNCHANGED <<state, apiKey, tables, prompts, response>>

\* the ai handler, up to its return or to the call of CreateChatCompletion in GetHelp
ExecAi(line) ==
    /\ Executes(line, "aiExecute")
    /\ cmdList' = <<>>
    /\ LET r == aiExecute(execArgs(line), apiKey)
       IN  IF r.kind = "return"
           THEN /\ Printed(r.result)
                /\ UNCHANGED <<requests, outstanding, request>>
           ELSE /\ pc' = "await"
                /\ request' = GetHelpMessages(r.question)
                /\ requests' = requests + 1
                /\ outstanding' = outstanding + 1
                /\ UNCHANGED <<result, stdout>>
    /\ UNCHANGED <<state, apiKey, tables, prompts, response>>

\* Completion sending the request once more when the call failed
Completion_Retry(r) ==
    /\ pc = "await"
    /\ state = "Running"
    /\ r \in Outcomes
    /\ response' = r
    /\ outstanding' = outstanding - 1
    /\ requests' = IF r.kind = "error" THEN requests + 1 ELSE requests
    /\ LET g == GetHelpReturn(r)
       IN  IF g.panic
           THEN /\ state' = "Panicked"
                /\ pc' = "done"
                /\ UNCHANGED <<result, stdout>>
           ELSE /\ Printed(aiReturn(g))
                /\ UNCHANGED state
    /\ UNCHANGED <<apiKey, tables, input, branch, handler, cmdList, prompts, linesRead, request,
                   before>>

\* CreateChatCompletion returns the outcome r: GetHelp and the ai handler return,
\* main prints the result; or GetHelp panics and the process aborts
Completion(r) ==
    /\ pc = "await"
    /\ state = "Running"
    /\ r \in Outcomes
    /\ response' = r
    /\ outstanding' = outstanding - 1
    /\ LET g == GetHelpReturn(r)
       IN  IF g.panic
           THEN /\ state' = "Panicked"
                /\ pc' = "done"
                /\ UNCHANGED <<result, stdout>>
           ELSE /\ Printed(aiReturn(g))
                /\ UNCHANGED state
    /\ UNCHANGED <<apiKey, tables, input, branch, handler, cmdList, prompts, linesRead,
                   requests, request, before>>

Next ==
    \/ Prompt
    \/ ScanEOF
    \/ \E line \in Lines : ScanEmpty(line)
    \/ \E line \in Lines : ScanExit(line)
    \/ \E line \in Lines : ScanHelp(line)
    \/ \E line \in Lines : ScanUnknown(line)
    \/ \E line \in Lines : ExecSensor(line)
    \/ \E line \in Lines : ExecAbb(line)
    \/ \E line \in Lines : ExecAi(line)
    \/ \E r \in Outcomes : Completion(r)

Spec == Init /\ [][Next]_vars

(***************************************************************************)
(* Sessions that repeat a line.                                            *)
(***************************************************************************)
\* what main printed for the line read last
lineOutput == IF branch = "continue" THEN "" ELSE stdout

\* an observer notes the first line of the session, unless it is an ai line,
\* and what main printed for it; the program is not affected
Remember ==
    /\ pc = "loop"
    /\ before = NoNote
    /\ linesRead = 1
    /\ branch \in {"continue", "help", "unknown", "execute"}
    /\ handler # "aiExecute"
    /\ before' = [at |-> linesRead, input |-> input, output |-> lineOutput]
    /\ UNCHANGED <<state, pc, apiKey, tables, input, branch, handler, result, cmdList, stdout,
                   prompts, linesRead, requests, outstanding, request, response>>

\* the lines the user may enter: any line until the observer has noted one,
\* then the noted line once more, as the next line
MayEnter(line) == before = NoNote \/ (line = before.input /\ linesRead = before.at)

\* the sessions of Spec, and those in which the user repeats the line noted
NextRepeat ==
    \/ Prompt
    \/ ScanEOF
    \/ Remember
    \/ \E line \in Lines : MayEnter(line) /\ ScanEmpty(line)
    \/ \E line \in Lines : MayEnter(line) /\ ScanExit(line)
    \/ \E line \in Lines : MayEnter(line) /\ ScanHelp(line)
    \/ \E line \in Lines : MayEnter(line) /\ ScanUnknown(line)
    \/ \E line \in Lines : MayEnter(line) /\ ExecSensor(line)
    \/ \E line \in Lines : MayEnter(line) /\ ExecAbb(line)
    \/ \E line \in Lines : MayEnter(line) /\ ExecAi(line)
    \/ \E r \in Outcomes : Completion(r)

SpecRepeat == Init /\ [][NextRepeat]_vars

(***************************************************************************)
(* Properties.                                                             *)
(***************************************************************************)
\* main: args[1:], the arguments the handler of the line read last received
handlerArgs == Tail(mainArgs(input))

\* the handler of the line read last has returned and main has printed its result
Returned == branch = "execute" /\ pc = "loop"

\* the line read last is made of exactly the words ws
InputWords(ws) == mainArgs(input) = ws

\* C1: for every pair (sensorType, action) given to the sensor command the
\* three-syntax template is returned exactly when sensorType is digital or
\* analog and action is when_on; every other pair gets a fixed "unknown"
\* message and never a template.
C1_TemplateOnlyForWhenOn ==
    (Returned /\ handler = "generateSensorCode" /\ Len(handlerArgs) >= 2) =>
        IF handlerArgs[1] \in {"digital", "analog"} /\ handlerArgs[2] = "when_on"
        THEN result \in {digitalTemplate, analogTemplate}
        ELSE result \notin {digitalTemplate, analogTemplate}

\* C2: no input line and no outcome of the external call aborts the process:
\* the REPL is Running, or Terminated through exit or end of input.
C2_NeverAborts ==
    /\ state \in {"Running", "Terminated"}
    /\ state = "Terminated" => branch \in {"exit", "eof"}

\* C3 as stated: with an empty credential, ai followed by one or more tokens
\* returns the configuration error, sends no request and leaves the REPL Running.
C3_OneOrMoreTokens ==
    (apiKey = "" /\ branch = "execute" /\ handler = "aiExecute" /\ Len(handlerArgs) >= 1) =>
        /\ pc = "loop"
        /\ result = "Error: OPENAI_API_KEY environment variable not set"
        /\ requests = 0
        /\ state = "Running"

\* C3 amended: with an empty credential, ai followed by two or more tokens (the
\* sub-word and a non-empty question) returns the configuration error and main
\* prints it, no request is sent to the external endpoint, and the REPL stays
\* Running.
C3_NoKeyNoRequest ==
    (apiKey = "" /\ branch = "execute" /\ handler = "aiExecute" /\ Len(handlerArgs) >= 2) =>
        /\ pc = "loop"
        /\ result = "Error: OPENAI_API_KEY environment variable not set"
        /\ stdout = "Error: OPENAI_API_KEY environment variable not set\n"
        /\ requests = 0
        /\ outstanding = 0
        /\ request = NoRequest
        /\ state = "Running"

C3_Witness ==
    /\ apiKey = ""
    /\ InputWords(<<"ai", "help", "what", "is", "MoveL", "?">>)
    /\ handler = "aiExecute"
    /\ result = "Error: OPENAI_API_KEY environment variable not set"
    /\ linesRead = MaxLines

\* main has read a line or the end of the input in this iteration
Scanned1 == branch \in {"continue", "exit", "help", "unknown", "execute", "eof"}

\* C4 as stated: the REPL is Terminated if and only if the input ended or the
\* whole line equals exit, letter case apart (read here with the blanks around
\* the word set aside); a line whose first word is exit and that has further
\* words leaves it Running.
C4_WholeLineExit ==
    Scanned1 =>
        (state = "Terminated" <=>
            (branch = "eof" \/ (Len(mainArgs(input)) = 1 /\ Str(ToLower(Fields(input)[1])) = "exit")))

\* C4 amended: the REPL moves from Running to Terminated if and only if the
\* input ended or the first blank-separated word of the line equals exit, letter
\* case apart (whatever follows it, whatever blanks surround it); no other line
\* terminates it.
C4_FirstWordExit ==
    Scanned1 =>
        (state = "Terminated" <=>
            (branch = "eof" \/ (mainArgs(input) # <<>> /\ Str(ToLower(Fields(input)[1])) = "exit")))

C4_Witness ==
    /\ InputWords(<<"Exit">>)
    /\ state = "Terminated"
    /\ linesRead = MaxLines

\* C5: once a line exit (in any letter case) is read the REPL is Terminated and
\* stays so: Goodbye! is the last output, no prompt is printed, no line is read,
\* no handler runs and no request is made afterwards.
C5_ExitIsFinal ==
    /\ [](branch = "exit" =>
            /\ state = "Terminated"
            /\ pc = "done"
            /\ stdout = "Goodbye!\n"
            /\ handler = "none"
            /\ outstanding = 0)
    /\ [][branch = "exit" => UNCHANGED vars]_vars

C5_Witness ==
    /\ InputWords(<<"EXIT">>)
    /\ branch = "exit"
    /\ state = "Terminated"
    /\ prompts = 2

\* C6: abb help shows the abb help text, the one abb without argument returns,
\* and not an unknown-subcommand message.
C6_AbbHelpShowsUsage ==
    (Returned /\ handler = "abbExecute" /\ handlerArgs = <<"help">>) => result = abbUsage

IsListingOf(list, keys) ==
    /\ Len(list) = Cardinality(keys)
    /\ {list[i] : i \in 1..Len(list)} = keys

\* C8: abb command and abb quickref without a key return a listing of exactly
\* the keys of the store: each key once, no other key, whatever the iteration
\* order of the map.
C8_ListingIsKeySet ==
    (Returned /\ handler = "abbExecute" /\ Len(handlerArgs) = 1) =>
        /\ handlerArgs[1] = "command" =>
              /\ IsListingOf(cmdList, DOMAIN Commands)
              /\ result = "Available commands:\n" \o Join(cmdList, ", ")
        /\ handlerArgs[1] = "quickref" =>
              /\ IsListingOf(cmdList, DOMAIN QuickReference)
              /\ result = "Available quick reference topics:\n" \o Join(cmdList, ", ")

C8_Witness ==
    /\ Returned
    /\ InputWords(<<"abb", "command">>)
    /\ Len(cmdList) = 20
    /\ cmdList[1] = "offs"
    /\ cmdList[2] = "robtarget"

\* the step in which main dispatches an ai line that reaches the AI bridge:
\* the credential is set and a question follows the sub-word
AiReachesBridge ==
    /\ pc = "scan"
    /\ branch' = "execute"
    /\ handler' = "aiExecute"
    /\ apiKey # ""
    /\ Len(Tail(mainArgs(input'))) >= 2

\* C9: every ai dispatch that reaches the AI bridge sends exactly one request,
\* made of the system prompt followed by one user message; no other step sends
\* a request, whatever the outcome of the call, so that the number of requests
\* is the number of such dispatches.
C9_OneRequestPerCall ==
    /\ requests = 0
    /\ [][IF AiReachesBridge
          THEN /\ requests' = requests + 1
               /\ outstanding' = 1
               /\ Len(request') = 2
               /\ request'[1] = [Role |-> "system", Content |-> systemPrompt]
               /\ request'[2].Role = "user"
          ELSE requests' = requests]_vars

C9_Witness ==
    /\ requests = 2
    /\ pc = "loop"
    /\ response.kind = "error"
    /\ Len(request) = 2

\* C10: when the external endpoint answers an ai call with T as its first
\* choice, the ai handler returns exactly T and main prints it.
C10_FirstChoiceVerbatim ==
    (handler = "aiExecute" /\ response.kind = "ok" /\ Len(response.choices) >= 1) =>
        /\ Returned
        /\ result = response.choices[1]
        /\ stdout = response.choices[1] \o "\n"

C10_Witness ==
    /\ Returned
    /\ handler = "aiExecute"
    /\ response.kind = "ok"
    /\ Len(response.choices) = 2
    /\ response.choices[1] = " MoveJ p10, v1000, z50, tool1;\n"
    /\ response.choices[2] = "Use MoveL for straight lines"
    /\ result = " MoveJ p10, v1000, z50, tool1;\n"

\* the line cs has no token: it is empty or made of blanks only
OnlyBlanks(cs) == \A i \in 1..Len(cs) : cs[i] \in {" ", "\t"}

\* C11: a line without tokens (empty, or blanks only) is a no-op: main takes the
\* continue branch for it and for no other line, no handler runs, nothing is
\* printed, no request is made, the tables are untouched and the REPL is Running
\* at the top of the loop, about to prompt for the next line.
C11_EmptyLineIsNoOp ==
    /\ []((Scanned1 /\ branch # "eof") => (branch = "continue" <=> OnlyBlanks(input)))
    /\ [][(linesRead' = linesRead + 1 /\ OnlyBlanks(input')) =>
             /\ handler' = "none"
             /\ result' = ""
             /\ stdout' = stdout
             /\ requests' = requests
             /\ outstanding' = 0
             /\ request' = NoRequest
             /\ tables' = tables
             /\ state' = "Running"
             /\ pc' = "loop"]_vars

C11_Witness ==
    /\ branch = "continue"
    /\ input = <<" ", " ">>
    /\ stdout = "\n> "
    /\ pc = "loop"
    /\ linesRead = 2

\* C12: for a line with tokens the first token, case-folded, alone selects what
\* main does. If it is a registered command, that command's handler runs with
\* the remaining tokens as typed (same order, same letter case, so COMMAND,
\* Move_J or Digital are not command, move_j or digital) and main prints what
\* it returned, unchanged. If it is neither registered nor help nor exit, no
\* handler runs, the "Unknown command" message pointing to help is printed and
\* the REPL stays Running.
C12_DispatchOnFoldedFirstWord ==
    (Scanned1 /\ branch # "eof" /\ ~OnlyBlanks(input)) =>
        LET w == Str(ToLower(Fields(input)[1]))
        IN  /\ w \in DOMAIN commandRegistry =>
                  /\ branch = "execute"
                  /\ handler = commandRegistry[w].Execute
                  /\ pc = "loop" => stdout = result \o "\n"
            /\ w \notin DOMAIN commandRegistry \cup {"help", "exit"} =>
                  /\ branch = "unknown"
                  /\ handler = "none"
                  /\ stdout = "Unknown command: " \o w \o "\nType 'help' for available commands\n"
                  /\ state = "Running"
                  /\ pc = "loop"
            /\ (w = "abb" /\ handlerArgs = <<"COMMAND">>) =>
                  result = "Unknown ABB subcommand. Available: command, quickref, list"
            /\ (w = "abb" /\ handlerArgs = <<"command", "Move_J">>) =>
                  result = "Unknown ABB command. Type 'abb command' to see available commands."
            /\ (w = "abb" /\ handlerArgs = <<"command", "move_j", "extra">>) =>
                  result = commandDetails(Commands["move_j"])
            /\ (w = "sensor" /\ handlerArgs = <<"Digital", "when_on">>) =>
                  result = "Unknown sensor type. Available types: digital, analog"
            /\ (w = "sensor" /\ handlerArgs = <<"digital", "When_On">>) =>
                  result = "Unknown action for digital sensor"
            /\ (w = "ai" /\ handlerArgs = <<"help", "What">> /\ request # NoRequest) =>
                  request[2].Content = "What"

C12_Witness ==
    /\ Returned
    /\ InputWords(<<"ABB", "command", "move_j", "extra">>)
    /\ handler = "abbExecute"
    /\ result = commandDetails(Commands["move_j"])

\* C13: lines are handled one at a time, in order. A request is outstanding
\* exactly while main waits in the ai call, and there is at most one; while it
\* is outstanding no prompt is printed and no line is read; a prompt is printed
\* only at the top of the loop, once the handler of the previous line has
\* returned and its result is printed; a line is read only right after its
\* prompt; prompts and lines alternate.
C13_OneLineAtATime ==
    /\ [](/\ outstanding \in {0, 1}
          /\ outstanding = 1 <=> pc = "await"
          /\ pc = "scan" => prompts = linesRead + 1
          /\ pc \in {"loop", "await"} => prompts = linesRead)
    /\ [][/\ outstanding = 1 =>
                /\ prompts' = prompts
                /\ linesRead' = linesRead
                /\ input' = input
          /\ prompts' # prompts =>
                /\ prompts' = prompts + 1
                /\ pc = "loop"
                /\ outstanding = 0
                /\ branch = "execute" => stdout = result \o "\n"
          /\ linesRead' # linesRead =>
                /\ linesRead' = linesRead + 1
                /\ pc = "scan"
                /\ outstanding = 0
                /\ stdout = "\n> "]_vars

C13_Witness ==
    /\ pc = "await"
    /\ outstanding = 1
    /\ linesRead = 2
    /\ prompts = 2
    /\ requests = 2

\* the tables hold what init() and the package initialisers put in them
TablesAsInitialised ==
    /\ DOMAIN commandRegistry = {"sensor", "ai", "abb"}
    /\ commandRegistry = commandRegistryTable
    /\ Commands = CommandsTable
    /\ QuickReference = QuickReferenceTable

\* the line noted earlier in the session has been entered again and answered
Repeated ==
    /\ before # NoNote
    /\ before.at < linesRead
    /\ pc = "loop"
    /\ input = before.input

\* the answer to the line cs enumerates a map with a range statement: help,
\* abb command, abb quickref and abb list
Enumerates(cs) ==
    LET a == mainArgs(cs)
        w == Str(ToLower(Fields(cs)[1]))
    IN  /\ a # <<>>
        /\ \/ w = "help"
           \/ /\ w = "abb"
              /\ Len(a) >= 2
              /\ \/ a[2] = "list"
                 \/ Len(a) = 2 /\ a[2] \in {"command", "quickref"}

\* C14 as stated: the registry and the stores stay as initialised, and the same
\* non-ai line yields the same output at any point of a session.
C14_SameOutputAlways ==
    /\ TablesAsInitialised
    /\ Repeated => lineOutput = before.output

\* C14 amended: in every reachable state the registry holds exactly the keys
\* sensor, ai and abb and the registry and both stores hold exactly the entries
\* they were initialised with; the same non-ai line yields the same output at
\* any point of a session unless its answer enumerates a map (help, abb command,
\* abb quickref, abb list), whose entries may come in another order each time.
C14_TablesFixed ==
    /\ TablesAsInitialised
    /\ (Repeated /\ ~Enumerates(input)) => lineOutput = before.output

C14_Witness ==
    /\ Repeated
    /\ before.at = 1
    /\ linesRead = 2
    /\ InputWords(<<"abb", "quickref", "no_such_key">>)
    /\ stdout = before.output
    /\ TablesAsInitialised

\* the words of ws from the n-th on, each followed by one blank but the last
RECURSIVE WordsFrom(_, _)
WordsFrom(ws, n) ==
    IF n > Len(ws) THEN ""
    ELSE IF n = Len(ws) THEN ws[n]
    ELSE ws[n] \o " " \o WordsFrom(ws, n + 1)

\* C15: the ai handler does not look at its first argument. With fewer than two
\* tokens after ai it returns the usage message, whatever the credential, and
\* no request is made. Otherwise, whenever a request is sent, its user message
\* is the tokens from the second argument on joined by single blanks: the first
\* argument is not part of it and the blanks of the line are not kept.
C15_FirstArgDiscarded ==
    (branch = "execute" /\ handler = "aiExecute") =>
        IF Len(handlerArgs) < 2
        THEN /\ pc = "loop"
             /\ result = "Usage: ai help \"your question about the code\""
             /\ request = NoRequest
             /\ outstanding = 0
        ELSE /\ apiKey # "" => request # NoRequest
             /\ request # NoRequest =>
                   /\ request[2] = [Role |-> "user", Content |-> WordsFrom(mainArgs(input), 3)]
                   /\ InputWords(<<"ai", "what", "is">>) => request[2].Content = "is"
                   /\ InputWords(<<"ai", "help", "what", "is", "MoveL", "?">>) =>
                         request[2].Content = "what is MoveL ?"

C15_Witness ==
    /\ pc = "await"
    /\ input = <<" ", "a", "i", " ", "\t", "w", "h", "a", "t", " ", "\t", "i", "s", " ">>
    /\ request[2].Content = "is"
====
